---- MODULE Spec2Model ----
(***************************************************************************)
(* A model of src/migration/analyze_scraper.py: the command-line entry     *)
(* point, analyze_scraper and the helpers it calls.  Strings are TLA+      *)
(* strings (TLC evaluates Len, SubSeq and \o on them), a syntax tree is a  *)
(* nested record, and ast.walk is the breadth-first walk of CPython's ast  *)
(* module.                                                                 *)
(***************************************************************************)
EXTENDS Integers, Sequences, FiniteSets, TLC

VARIABLES
    argv,       \* sys.argv
    disk,       \* the file the argument names
    pc,         \* where the program is
    content,    \* analyze_scraper: the text read
    tree,       \* analyze_scraper: the tree parsed
    analysis,   \* analyze_scraper: the record under construction
    todo,       \* the class definitions the walk of line 34 has yet to yield
    items,      \* the items the loop of line 39 has yet to visit
    stdout,     \* what was written to standard output
    stderr,     \* what was written to the error stream
    exitCode,   \* the exit status, -1 while the program runs
    trace       \* the stages run so far, in order

vars == <<argv, disk, pc, content, tree, analysis, todo, items, stdout, stderr, exitCode, trace>>

(***************************************************************************)
(* Characters and strings                                                  *)
(***************************************************************************)
Lowercase == "abcdefghijklmnopqrstuvwxyz"

Uppercase == "ABCDEFGHIJKLMNOPQRSTUVWXYZ"

Digits == "0123456789"

Char(s, i) == SubSeq(s, i, i)

CharsOf(chars) == {Char(chars, i) : i \in 1..Len(chars)}

\* [a-zA-Z]
AsciiLetters == CharsOf(Lowercase) \cup CharsOf(Uppercase)

IsAsciiLetter(c) == c \in AsciiLetters

\* [\w-] over the ASCII characters the model's texts are written in
WordOrHyphen == AsciiLetters \cup CharsOf(Digits) \cup {"_", "-"}

IsWordOrHyphen(c) == c \in WordOrHyphen

LowerOf == [c \in CharsOf(Uppercase) |->
               Char(Lowercase, CHOOSE i \in 1..Len(Uppercase) : Char(Uppercase, i) = c)]

LowerChar(c) == IF c \in DOMAIN LowerOf THEN LowerOf[c] ELSE c

\* The joins over long sequences below are evaluated by halves: the same
\* left-to-right result, with an evaluation depth of log(length).
First(xs) == SubSeq(xs, 1, Len(xs) \div 2)

Rest(xs) == SubSeq(xs, Len(xs) \div 2 + 1, Len(xs))

RECURSIVE Concat(_)
Concat(strs) ==
    IF strs = <<>> THEN ""
    ELSE IF Len(strs) = 1 THEN strs[1]
    ELSE Concat(First(strs)) \o Concat(Rest(strs))

\* str.lower(), character by character
Lower(s) == Concat([i \in 1..Len(s) |-> LowerChar(Char(s, i))])

\* needle in text
Contains(text, needle) ==
    \E i \in 1..(Len(text) - Len(needle) + 1) :
        SubSeq(text, i, i + Len(needle) - 1) = needle

\* "\n".join(lines)
JoinLines(lines) ==
    Concat([i \in 1..(2 * Len(lines) - 1) |->
               IF i % 2 = 1 THEN lines[(i + 1) \div 2] ELSE "\n"])

\* text.split("\n"): the pieces before, between and after the line breaks
SplitLines(text) ==
    LET breaks == SelectSeq([i \in 1..Len(text) |-> i], LAMBDA i : Char(text, i) = "\n")
        from(k) == IF k = 1 THEN 1 ELSE breaks[k - 1] + 1
        to(k) == IF k = Len(breaks) + 1 THEN Len(text) ELSE breaks[k] - 1
    IN  [k \in 1..(Len(breaks) + 1) |-> SubSeq(text, from(k), to(k))]

\* an optional value: None, or a string
None == [some |-> FALSE, val |-> ""]

Some(s) == [some |-> TRUE, val |-> s]

\* Python truthiness of an optional string: None and "" are both falsy
Truthy(opt) == opt.some /\ opt.val # ""

(***************************************************************************)
(* extract_css_selector: re.search of three patterns                       *)
(***************************************************************************)
\* r"[.#][\w-]+" found anywhere in text
MatchesClassOrId(text) ==
    \E i \in 1..(Len(text) - 1) :
        /\ Char(text, i) \in {".", "#"}
        /\ IsWordOrHyphen(Char(text, i + 1))

\* r'[a-zA-Z][\w-]*(?:\[...\])?' found anywhere in text: the tail and the
\* attribute group may both match the empty string, so one letter decides
\* Fault: the pattern anchored at the start of the text (re.match)
MatchesElementAtStart(text) ==
    Len(text) > 0 /\ IsAsciiLetter(Char(text, 1))

MatchesElement(text) ==
    \E i \in 1..Len(text) : IsAsciiLetter(Char(text, i))

\* r"[a-zA-Z][\w-]*:[\w-]+" found anywhere in text
MatchesPseudo(text) ==
    \E i \in 1..Len(text) : \E j \in (i + 1)..(Len(text) - 1) :
        /\ IsAsciiLetter(Char(text, i))
        /\ \A k \in (i + 1)..(j - 1) : IsWordOrHyphen(Char(text, k))
        /\ Char(text, j) = ":"
        /\ IsWordOrHyphen(Char(text, j + 1))

extract_css_selector(text) ==
    IF MatchesClassOrId(text) \/ MatchesElement(text) \/ MatchesPseudo(text)
    THEN Some(text)
    ELSE None

(***************************************************************************)
(* extract_schema_property: the first vocabulary entry the text contains   *)
(***************************************************************************)
schema_patterns ==
    << "recipeIngredient", "recipeInstructions", "totalTime", "cookTime",
       "prepTime", "recipeYield", "name", "description", "author", "image",
       "datePublished", "nutrition" >>

extract_schema_property(text) ==
    IF \E k \in 1..Len(schema_patterns) : Contains(text, schema_patterns[k])
    THEN LET first == CHOOSE k \in 1..Len(schema_patterns) :
                        /\ Contains(text, schema_patterns[k])
                        /\ \A m \in 1..(k - 1) : ~Contains(text, schema_patterns[m])
         IN  Some(schema_patterns[first])
    ELSE None

(***************************************************************************)
(* Syntax trees.  A node carries its kind (the ast class; "Str" is a       *)
(* string constant, "Other" any class the program never tests for), the    *)
(* attributes the program reads, and its child nodes in field order: head  *)
(* (the fields before the body: bases, arguments, test, func, args,        *)
(* value), body, tail (the fields after it: handlers).                     *)
(***************************************************************************)
Node(kind, name, module, names, s, lineno, end_lineno, head, body, tail) ==
    [kind |-> kind, name |-> name, module |-> module, names |-> names, s |-> s,
     lineno |-> lineno, end_lineno |-> end_lineno,
     head |-> head, body |-> body, tail |-> tail]

\* ast.iter_child_nodes
Children(node) == node.head \o node.body \o node.tail

RECURSIVE Flatten(_)
Flatten(seqs) ==
    IF seqs = <<>> THEN <<>>
    ELSE IF Len(seqs) = 1 THEN seqs[1]
    ELSE Flatten(First(seqs)) \o Flatten(Rest(seqs))

\* the nodes of a subtree in pre-order, depth first: declaration order
RECURSIVE PreOrder(_)
PreOrder(node) ==
    LET cs == Children(node)
    IN  <<node>> \o Flatten([i \in 1..Len(cs) |-> PreOrder(cs[i])])

\* Fault: a depth-first walk
WalkDepthFirst(node) == PreOrder(node)

\* ast.walk: todo = deque([node]); popleft, extend with the children, yield.
\* The queue always holds the rest of one level followed by the children
\* found so far of the next, so the nodes come out level by level, each
\* level in the order of its parents.
RECURSIVE WalkLevel(_)
WalkLevel(level) ==
    IF level = <<>> THEN <<>>
    ELSE level \o WalkLevel(Flatten([i \in 1..Len(level) |-> Children(level[i])]))

Walk(node) == WalkLevel(<<node>>)

RECURSIVE Sum(_)
Sum(xs) ==
    IF xs = <<>> THEN 0
    ELSE IF Len(xs) = 1 THEN xs[1]
    ELSE Sum(First(xs)) + Sum(Rest(xs))

\* the string constants of a subtree, in walk order
StrTexts(node) ==
    LET strs == SelectSeq(Walk(node), LAMBDA n : n.kind = "Str")
    IN  [i \in 1..Len(strs) |-> strs[i].s]

\* the results of extract(text) that are truthy, in order
Extracted(results) ==
    LET found == SelectSeq(results, Truthy)
    IN  [i \in 1..Len(found) |-> found[i].val]

Selectors(texts) ==
    Extracted([i \in 1..Len(texts) |-> extract_css_selector(texts[i])])

SchemaProperties(texts) ==
    Extracted([i \in 1..Len(texts) |-> extract_schema_property(texts[i])])

(***************************************************************************)
(* calculate_method_complexity.  The running total is counted in halves,   *)
(* which is exact for a float that only ever grows by 1 or by 0.5; int()   *)
(* of a non-negative float is the floor.                                   *)
(***************************************************************************)
Weight(node) ==
    IF node.kind \in {"If", "While", "For"} THEN 2
    ELSE IF node.kind = "Try" THEN 2
    ELSE IF node.kind = "Call" THEN 1
    ELSE 0

\* Fault: round() in place of int()
IntOfHalvesRounded(halves) == (halves + 1) \div 2

IntOfHalves(halves) == halves \div 2

calculate_method_complexity(method_node) ==
    LET nodes == Walk(method_node)
    IN  IntOfHalves(Sum([i \in 1..Len(nodes) |-> Weight(nodes[i])]))

(***************************************************************************)
(* analyze_method                                                          *)
(***************************************************************************)
MethodBody(method_node, text) ==
    IF method_node.lineno # 0 /\ method_node.end_lineno # 0
    THEN LET lines == SplitLines(text)
             last == IF method_node.end_lineno < Len(lines)
                     THEN method_node.end_lineno ELSE Len(lines)
         IN  JoinLines(SubSeq(lines, method_node.lineno, last))
    ELSE ""

\* Fault: prep_time left out of the numeric names
ReturnTypeShortList(name) ==
    IF name \in {"ingredients", "instructions"} THEN "string[]"
    ELSE IF name \in {"total_time", "cook_time"} THEN "number"
    ELSE "string"

ReturnType(name) ==
    IF name \in {"ingredients", "instructions"} THEN "string[]"
    ELSE IF name \in {"total_time", "cook_time", "prep_time"} THEN "number"
    ELSE "string"

analyze_method(method_node, text) ==
    [name |-> method_node.name,
     returnType |-> ReturnType(method_node.name),
     selectors |-> Selectors(StrTexts(method_node)),
     schemaProperties |-> SchemaProperties(StrTexts(method_node)),
     complexity |-> calculate_method_complexity(method_node),
     body |-> MethodBody(method_node, text)]

(***************************************************************************)
(* extract_host_name: the first Return in walk order whose value is a      *)
(* string constant                                                         *)
(***************************************************************************)
ReturnsStr(node) ==
    node.kind = "Return" /\ node.head # <<>> /\ node.head[1].kind = "Str"

extract_host_name(method_node) ==
    LET rets == SelectSeq(Walk(method_node), ReturnsStr)
    IN  IF rets = <<>> THEN None ELSE Some(rets[1].head[1].s)

(***************************************************************************)
(* analyze_scraper, its two loops over ast.walk(tree)                      *)
(***************************************************************************)
NewAnalysis(file_path) ==
    [className |-> "", hostName |-> "", methods |-> <<>>, imports |-> <<>>,
     complexity |-> "simple", parsingStrategy |-> "schema", filePath |-> file_path]

ImportNames(node) ==
    IF node.kind = "Import" THEN node.names
    ELSE IF node.kind = "ImportFrom" /\ node.module # ""
         THEN [i \in 1..Len(node.names) |-> node.module \o "." \o node.names[i]]
    ELSE <<>>

\* lines 24-31: every node of the walk appends its names
ImportLoop(nodes, imports) ==
    imports \o Flatten([i \in 1..Len(nodes) |-> ImportNames(nodes[i])])

\* lines 40-48: one item of a class body
MethodStep(item, a, text) ==
    LET host_name == extract_host_name(item)
        a1 == [a EXCEPT !.methods = Append(@, analyze_method(item, text))]
    IN  IF item.kind = "FunctionDef"
        THEN IF item.name = "host" /\ Truthy(host_name)
             THEN [a1 EXCEPT !.hostName = host_name.val]
             ELSE a1
        ELSE a

IsClassDef(node) == node.kind = "ClassDef"

(***************************************************************************)
(* determine_complexity, determine_parsing_strategy                        *)
(***************************************************************************)
TotalComplexity(a) == Sum([i \in 1..Len(a.methods) |-> a.methods[i].complexity])

MethodCount(a) == Len(a.methods)

\* Fault: the thresholds included (>=)
determine_complexity_inclusive(a) ==
    IF TotalComplexity(a) >= 20 \/ MethodCount(a) >= 15 THEN "complex"
    ELSE IF TotalComplexity(a) >= 10 \/ MethodCount(a) >= 8 THEN "medium"
    ELSE "simple"

determine_complexity(a) ==
    IF TotalComplexity(a) > 20 \/ MethodCount(a) > 15 THEN "complex"
    ELSE IF TotalComplexity(a) > 10 \/ MethodCount(a) > 8 THEN "medium"
    ELSE "simple"

SchemaCount(a) == Sum([i \in 1..Len(a.methods) |-> Len(a.methods[i].schemaProperties)])

SelectorCount(a) == Sum([i \in 1..Len(a.methods) |-> Len(a.methods[i].selectors)])

MentionsSchemaOrJson(text) ==
    Contains(Lower(text), "schema") \/ Contains(Lower(text), "json")

\* Fault: the text searched as written, not lower-cased
determine_parsing_strategy_cased(a, text) ==
    IF Contains(text, "schema") \/ Contains(text, "json")
    THEN IF SelectorCount(a) > 0 THEN "mixed" ELSE "schema"
    ELSE "selectors"

determine_parsing_strategy(a, text) ==
    IF MentionsSchemaOrJson(text)
    THEN IF SelectorCount(a) > 0 THEN "mixed" ELSE "schema"
    ELSE "selectors"

(***************************************************************************)
(* Source files.  A file is written down as a sequence of statements and   *)
(* built into both its text and the tree ast.parse gives for that text, so *)
(* the content and the tree the program works on always belong together.   *)
(* A statement is [d, name, names, s, body]: d is the statement form.      *)
(***************************************************************************)
Stmt(d, name, names, s, body) ==
    [d |-> d, name |-> name, names |-> names, s |-> s, body |-> body]

Leaf(kind) == Node(kind, "", "", <<>>, "", 0, 0, <<>>, <<>>, <<>>)

StrNode(s) == Node("Str", "", "", <<>>, s, 0, 0, <<>>, <<>>, <<>>)

Inner(kind, head, body, tail) == Node(kind, "", "", <<>>, "", 0, 0, head, body, tail)

RECURSIVE CommaJoin(_)
CommaJoin(names) ==
    IF names = <<>> THEN ""
    ELSE IF Len(names) = 1 THEN names[1]
    ELSE names[1] \o ", " \o CommaJoin(Tail(names))

Indent == "    "

Quoted(s) == "\"" \o s \o "\""

RECURSIVE BuildStmt(_, _, _), BuildBlock(_, _, _)
\* the lines and the nodes of one statement that starts on line `at`
BuildStmt(st, ind, at) ==
    LET inner == BuildBlock(st.body, ind \o Indent, at + 1)
        compound(kind, header, head) ==
            [src |-> <<ind \o header>> \o inner.src,
             nodes |-> <<Inner(kind, head, inner.nodes, <<>>)>>]
        simple(line, node) == [src |-> <<ind \o line>>, nodes |-> <<node>>]
    IN  CASE st.d = "comment" -> [src |-> <<ind \o "# " \o st.s>>, nodes |-> <<>>]
          [] st.d = "import" ->
                simple("import " \o CommaJoin(st.names),
                       Node("Import", "", "", st.names, "", at, at, <<>>, <<>>, <<>>))
          [] st.d = "from" ->
                simple("from " \o (IF st.name = "" THEN "." ELSE st.name)
                               \o " import " \o CommaJoin(st.names),
                       Node("ImportFrom", "", st.name, st.names, "", at, at,
                            <<>>, <<>>, <<>>))
          [] st.d = "return" -> simple("return", Inner("Return", <<>>, <<>>, <<>>))
          [] st.d = "return_str" ->
                simple("return " \o Quoted(st.s),
                       Inner("Return", <<StrNode(st.s)>>, <<>>, <<>>))
          [] st.d = "return_attr" ->
                simple("return self." \o st.name,
                       Inner("Return", <<Leaf("Other")>>, <<>>, <<>>))
          [] st.d = "select" ->
                simple("return self.soup." \o st.name \o "(" \o Quoted(st.s) \o ")",
                       Inner("Return",
                             <<Inner("Call", <<Leaf("Other"), StrNode(st.s)>>, <<>>, <<>>)>>,
                             <<>>, <<>>))
          [] st.d = "call" ->
                simple(st.name \o "()",
                       Inner("Other", <<Inner("Call", <<Leaf("Other")>>, <<>>, <<>>)>>,
                             <<>>, <<>>))
          [] st.d = "doc" ->
                simple(Quoted(st.s), Inner("Other", <<StrNode(st.s)>>, <<>>, <<>>))
          [] st.d = "if" -> compound("If", "if x:", <<Leaf("Other")>>)
          [] st.d = "while" -> compound("While", "while x:", <<Leaf("Other")>>)
          [] st.d = "for" -> compound("For", "for x in xs:", <<Leaf("Other"), Leaf("Other")>>)
          [] st.d = "try" ->
                [src |-> <<ind \o "try:">> \o inner.src
                           \o <<ind \o "except Exception:", ind \o Indent \o "pass">>,
                 nodes |-> <<Inner("Try", <<>>, inner.nodes,
                                   <<Inner("Other", <<Leaf("Other")>>, <<Leaf("Other")>>, <<>>)>>)>>]
          [] st.d = "def" ->
                [src |-> <<ind \o "def " \o st.name \o "(self):">> \o inner.src,
                 nodes |-> <<Node("FunctionDef", st.name, "", <<>>, "",
                                  at, at + Len(inner.src),
                                  <<Leaf("Other")>>, inner.nodes, <<>>)>>]
          [] st.d = "class" ->
                [src |-> <<ind \o "class " \o st.name
                               \o (IF st.s = "" THEN "" ELSE "(" \o st.s \o ")") \o ":">>
                           \o inner.src,
                 nodes |-> <<Node("ClassDef", st.name, "", <<>>, "",
                                  at, at + Len(inner.src),
                                  IF st.s = "" THEN <<>> ELSE <<Leaf("Other")>>,
                                  inner.nodes, <<>>)>>]

\* a block of statements; an empty block is written `pass`
BuildBlock(stmts, ind, at) ==
    IF stmts = <<>> THEN [src |-> <<ind \o "pass">>, nodes |-> <<Leaf("Other")>>]
    ELSE IF Len(stmts) = 1 THEN BuildStmt(stmts[1], ind, at)
    ELSE LET h == BuildBlock(First(stmts), ind, at)
             t == BuildBlock(Rest(stmts), ind, at + Len(h.src))
         IN  [src |-> h.src \o t.src, nodes |-> h.nodes \o t.nodes]

NoTree == Leaf("None")

\* a readable file of valid syntax: its text and the tree of that text
SourceFile(stmts) ==
    LET b == IF stmts = <<>> THEN [src |-> <<>>, nodes |-> <<>>]
             ELSE BuildBlock(stmts, "", 1)
    IN  [status |-> "ok", text |-> JoinLines(b.src \o <<"">>), parses |-> TRUE,
         tree |-> Inner("Module", <<>>, b.nodes, <<>>)]

MissingFile == [status |-> "missing", text |-> "", parses |-> FALSE, tree |-> NoTree]

DeniedFile == [status |-> "denied", text |-> "", parses |-> FALSE, tree |-> NoTree]

BadSyntaxFile == [status |-> "ok", text |-> "class :\n", parses |-> FALSE, tree |-> NoTree]

FailingFiles == {MissingFile, DeniedFile, BadSyntaxFile}

(***************************************************************************)
(* The files of the main specification: up to MaxStmts top-level           *)
(* statements, each one of TopShapes.                                      *)
(***************************************************************************)
MaxStmts == 2

MaxArgs == 2

Def(name, body) == Stmt("def", name, <<>>, "", body)

Class(name, base, body) == Stmt("class", name, <<>>, base, body)

Simple(d, name, s) == Stmt(d, name, <<>>, s, <<>>)

HostA == Def("host", <<Simple("return_str", "", "a.com")>>)

HostB == Def("host", <<Simple("return_str", "", "b.com")>>)

HostAttr == Def("host", <<Simple("return_attr", "domain", "")>>)

HostEmpty == Def("host", <<Simple("return_str", "", "")>>)

Ingredients == Def("ingredients", <<Simple("select", "select", ".recipe-ingredient")>>)

Instructions == Def("instructions", <<Simple("select", "find", "[itemprop=recipeInstructions]")>>)

CookTime ==
    Def("cook_time",
        <<Stmt("if", "", <<>>, "", <<Simple("call", "log", "")>>),
          Simple("select", "find", "42")>>)

Title == Def("title", <<Simple("doc", "", "The recipe name"), Simple("return_attr", "t", "")>>)

TopShapes ==
    { Stmt("import", "", <<"json">>, "", <<>>),
      Stmt("import", "", <<"re", "os">>, "", <<>>),
      Stmt("from", "bs4", <<"BeautifulSoup">>, "", <<>>),
      Stmt("from", "", <<"utils">>, "", <<>>),
      Def("helper", <<Stmt("import", "", <<"lxml">>, "", <<>>)>>),
      Simple("comment", "", "Schema.org data first"),
      Class("FooScraper", "AbstractScraper", <<HostA, Ingredients>>),
      Class("BarScraper", "", <<HostB, CookTime>>),
      Class("Helper", "", <<Simple("doc", "", "helpers"), Title>>),
      Class("Outer", "", <<HostAttr, Class("Inner", "", <<HostEmpty, Instructions>>)>>) }

SeqsUpTo(S, n) == UNION {[1..k -> S] : k \in 0..n}

MainFiles == {SourceFile(stmts) : stmts \in SeqsUpTo(TopShapes, MaxStmts)}

(***************************************************************************)
(* The files of SpecTier.  Tier files: one class of up to MaxMethods       *)
(* methods, the first with k1 branching constructs, every other with k.    *)
(* Score files: one class of two methods, the first with k constructs and  *)
(* c calls, the second with one construct and c2 calls.                    *)
(***************************************************************************)
MaxMethods == 16

MaxFirst == 7

MaxEach == 3

MaxCalls == 3

MethodNames ==
    << "host", "title", "ingredients", "instructions", "total_time", "cook_time",
       "prep_time", "yields", "image", "author", "description", "category",
       "cuisine", "ratings", "nutrients", "language", "site_name", "keywords",
       "links", "equipment" >>

ConstructForms == <<"if", "while", "for", "try">>

\* k constructs, one after the other, the c calls inside the first (or, with
\* no construct, alone)
Constructs(k, c) ==
    LET calls == [j \in 1..c |-> Simple("call", "step", "")]
    IN  IF k = 0 THEN calls
        ELSE [i \in 1..k |->
                Stmt(ConstructForms[((i - 1) % Len(ConstructForms)) + 1], "", <<>>, "",
                     IF i = 1 THEN calls ELSE <<>>)]

TierFile(n, k1, k) ==
    SourceFile(<<Class("BigScraper", "",
                       [i \in 1..n |->
                          Def(MethodNames[((i - 1) % Len(MethodNames)) + 1],
                              Constructs(IF i = 1 THEN k1 ELSE k, 0))])>>)

TierFiles ==
    {TierFile(n, k1, k) : n \in 0..MaxMethods, k1 \in 0..MaxFirst, k \in 0..MaxEach}

ScoreFile(k, c, c2) ==
    SourceFile(<<Class("ScoreScraper", "",
                       <<Def("title", Constructs(k, c)),
                         Def("yields", Constructs(1, c2))>>)>>)

ScoreFiles ==
    {ScoreFile(k, c, c2) : k \in 0..MaxEach, c \in 0..MaxCalls, c2 \in 0..MaxCalls}

(***************************************************************************)
(* The files of SpecLit: one class whose method holds two string           *)
(* constants, the first a vocabulary entry or a word outside the           *)
(* vocabulary wrapped in up to MaxAffix characters on each side; half of   *)
(* the files mention JSON in a comment.                                    *)
(***************************************************************************)
MaxAffix == 1

AffixChars == {"#", "1", "]"}

RECURSIVE Strings(_, _)
Strings(chars, n) ==
    IF n = 0 THEN {""}
    ELSE LET shorter == Strings(chars, n - 1)
         IN  shorter \cup {c \o s : c \in chars, s \in shorter}

Cores == {schema_patterns[k] : k \in 1..Len(schema_patterns)} \cup {"", "42", "nam"}

Literals ==
    {p \o core \o s : p \in Strings(AffixChars, MaxAffix), core \in Cores,
                       s \in Strings(AffixChars, MaxAffix)}

LitFile(lit, other, mention) ==
    SourceFile((IF mention THEN <<Simple("comment", "", "parsed from JSON-LD")>> ELSE <<>>)
               \o <<Class("LitScraper", "",
                          <<Def("title", <<Simple("doc", "", lit),
                                           Simple("select", "find", other)>>)>>)>>)

LitFiles == {LitFile(lit, other, mention) :
                lit \in Literals, other \in {"42", "name"}, mention \in BOOLEAN}

\* sys.argv: the script, then up to MaxArgs positional arguments
ArgLists == {<<"analyze_scraper.py">> \o [i \in 1..n |-> "scraper.py"] : n \in 0..MaxArgs}

(***************************************************************************)
(* The program: __main__ and the stages of analyze_scraper                 *)
(***************************************************************************)
UsageLine == "Usage: python analyze_scraper.py <file_path>"

NoAnalysis == NewAnalysis("")

\* json.dumps: the keys in insertion order, each with its value
DumpMethod(m) ==
    << <<"name", m.name>>, <<"returnType", m.returnType>>,
       <<"selectors", m.selectors>>, <<"schemaProperties", m.schemaProperties>>,
       <<"complexity", m.complexity>>, <<"body", m.body>> >>

JsonDumps(a) ==
    << <<"className", a.className>>, <<"hostName", a.hostName>>,
       <<"methods", [i \in 1..Len(a.methods) |-> DumpMethod(a.methods[i])]>>,
       <<"imports", a.imports>>, <<"complexity", a.complexity>>,
       <<"parsingStrategy", a.parsingStrategy>>, <<"filePath", a.filePath>> >>

InitWith(files) ==
    /\ argv \in ArgLists
    /\ disk \in files
    /\ pc = "main"
    /\ content = ""
    /\ tree = NoTree
    /\ analysis = NoAnalysis
    /\ todo = <<>>
    /\ items = <<>>
    /\ stdout = <<>>
    /\ stderr = <<>>
    /\ exitCode = -1
    /\ trace = <<>>

Init == InitWith(FailingFiles \cup MainFiles)

\* Fault: the exception caught, and the record built so far printed
UncaughtSwallowed(exception, stage) ==
    /\ stdout' = Append(stdout, JsonDumps(analysis))
    /\ exitCode' = 0
    /\ pc' = "exit"
    /\ trace' = Append(trace, stage)
    /\ UNCHANGED <<argv, disk, content, tree, analysis, todo, items, stderr>>

\* an exception nobody catches: the traceback goes to the error stream and
\* the interpreter exits with status 1
Uncaught(exception, stage) ==
    /\ stderr' = Append(stderr, "Traceback: " \o exception)
    /\ exitCode' = 1
    /\ pc' = "exit"
    /\ trace' = Append(trace, stage)
    /\ UNCHANGED <<argv, disk, content, tree, analysis, todo, items, stdout>>

\* lines 185-187: print() writes to standard output, sys.exit(1) ends the run
Usage ==
    /\ pc = "main"
    /\ Len(argv) # 2
    /\ stdout' = Append(stdout, UsageLine)
    /\ exitCode' = 1
    /\ pc' = "exit"
    /\ UNCHANGED <<argv, disk, content, tree, analysis, todo, items, stderr, trace>>

\* lines 8-9
ReadFile ==
    /\ pc = "main"
    /\ Len(argv) = 2
    /\ disk.status = "ok"
    /\ content' = disk.text
    /\ pc' = "parse"
    /\ trace' = Append(trace, "load")
    /\ UNCHANGED <<argv, disk, tree, analysis, todo, items, stdout, stderr, exitCode>>

ReadFileFails ==
    /\ pc = "main"
    /\ Len(argv) = 2
    /\ disk.status # "ok"
    /\ Uncaught(IF disk.status = "missing" THEN "FileNotFoundError" ELSE "PermissionError",
                "load")

\* lines 11-21: the tree of the content, then the fresh analysis record
Parse ==
    /\ pc = "parse"
    /\ disk.parses
    /\ tree' = disk.tree
    /\ analysis' = NewAnalysis(argv[2])
    /\ pc' = "imports"
    /\ trace' = Append(trace, "parse")
    /\ UNCHANGED <<argv, disk, content, todo, items, stdout, stderr, exitCode>>

ParseFails ==
    /\ pc = "parse"
    /\ ~disk.parses
    /\ Uncaught("SyntaxError", "parse")

\* lines 23-31, and the walk of line 34 is started
CollectImports ==
    /\ pc = "imports"
    /\ analysis' = [analysis EXCEPT !.imports = ImportLoop(Walk(tree), @)]
    /\ todo' = SelectSeq(Walk(tree), IsClassDef)
    /\ pc' = "classes"
    /\ trace' = Append(trace, "imports")
    /\ UNCHANGED <<argv, disk, content, tree, items, stdout, stderr, exitCode>>

\* lines 34-39: the walk yields its next class definition
NextClass ==
    /\ pc = "classes"
    /\ todo # <<>>
    /\ analysis' = [analysis EXCEPT !.className = Head(todo).name]
    /\ items' = Head(todo).body
    /\ todo' = Tail(todo)
    /\ pc' = "items"
    /\ UNCHANGED <<argv, disk, content, tree, stdout, stderr, exitCode, trace>>

\* lines 39-48: the next item of the class body
NextItem ==
    /\ pc = "items"
    /\ items # <<>>
    /\ analysis' = MethodStep(Head(items), analysis, content)
    /\ items' = Tail(items)
    /\ UNCHANGED <<argv, disk, pc, content, tree, todo, stdout, stderr, exitCode, trace>>

\* line 39: the class body is exhausted
ItemsDone ==
    /\ pc = "items"
    /\ items = <<>>
    /\ pc' = "classes"
    /\ UNCHANGED <<argv, disk, content, tree, analysis, todo, items, stdout, stderr,
                   exitCode, trace>>

\* line 34: the walk is exhausted
WalkDone ==
    /\ pc = "classes"
    /\ todo = <<>>
    /\ pc' = "classify"
    /\ trace' = Append(trace, "classes")
    /\ UNCHANGED <<argv, disk, content, tree, analysis, todo, items, stdout, stderr,
                   exitCode>>

\* lines 50-54
Classify ==
    /\ pc = "classify"
    /\ analysis' = [analysis EXCEPT
                        !.complexity = determine_complexity(analysis),
                        !.parsingStrategy = determine_parsing_strategy(analysis, content)]
    /\ pc' = "print"
    /\ trace' = Append(trace, "aggregate")
    /\ UNCHANGED <<argv, disk, content, tree, todo, items, stdout, stderr, exitCode>>

\* line 190, then the interpreter ends with status 0
PrintReport ==
    /\ pc = "print"
    /\ stdout' = Append(stdout, JsonDumps(analysis))
    /\ exitCode' = 0
    /\ pc' = "exit"
    /\ trace' = Append(trace, "report")
    /\ UNCHANGED <<argv, disk, content, tree, analysis, todo, items, stderr>>

Next ==
    \/ Usage
    \/ ReadFile
    \/ ReadFileFails
    \/ Parse
    \/ ParseFails
    \/ CollectImports
    \/ NextClass
    \/ NextItem
    \/ ItemsDone
    \/ WalkDone
    \/ Classify
    \/ PrintReport

Spec == Init /\ [][Next]_vars

InitTier == InitWith(FailingFiles \cup TierFiles \cup ScoreFiles)

SpecTier == InitTier /\ [][Next]_vars

InitLit == InitWith(FailingFiles \cup LitFiles)

SpecLit == InitLit /\ [][Next]_vars

(***************************************************************************)
(* What the claims are stated in                                           *)
(***************************************************************************)
\* the run ended with a report written
Reported == pc = "exit" /\ exitCode = 0

IsFunctionDef(node) == node.kind = "FunctionDef"

\* the class definitions of a tree in the order the walk yields them
ClassesOf(t) == SelectSeq(Walk(t), IsClassDef)

\* the direct-child function definitions of a class
MethodsOf(class) == SelectSeq(class.body, IsFunctionDef)

\* the method definitions the class walk visits, in the order it visits them
VisitedMethods(t) ==
    LET cs == ClassesOf(t) IN Flatten([i \in 1..Len(cs) |-> MethodsOf(cs[i])])

\* the nodes of a subtree that lie `depth` levels below its root, in
\* declaration order
RECURSIVE AtDepth(_, _)
AtDepth(node, depth) ==
    IF depth = 0 THEN <<node>>
    ELSE LET cs == Children(node)
         IN  Flatten([i \in 1..Len(cs) |-> AtDepth(cs[i], depth - 1)])

RECURSIVE Height(_)
Height(node) ==
    LET cs == Children(node)
        hs == {Height(cs[i]) : i \in 1..Len(cs)}
    IN  IF cs = <<>> THEN 0 ELSE 1 + CHOOSE h \in hs : \A g \in hs : g <= h

\* how many nodes of a subtree are of one of the kinds
RECURSIVE CountKinds(_, _)
CountKinds(node, kinds) ==
    LET cs == Children(node)
    IN  (IF node.kind \in kinds THEN 1 ELSE 0)
        + Sum([i \in 1..Len(cs) |-> CountKinds(cs[i], kinds)])

Elements(xs) == {xs[i] : i \in 1..Len(xs)}

(***************************************************************************)
(* C1: the complexity tier of a report is 'complex' if totalComplexity >   *)
(* 20 or methodCount > 15, otherwise 'medium' if totalComplexity > 10 or   *)
(* methodCount > 8, otherwise 'simple'; (20, 15) gives 'medium' and        *)
(* (10, 8) gives 'simple'.                                                 *)
(***************************************************************************)
C1_TierByThresholds ==
    Reported =>
        LET total == Sum([i \in 1..Len(analysis.methods) |-> analysis.methods[i].complexity])
            count == Len(analysis.methods)
        IN  /\ (total > 20 \/ count > 15) => analysis.complexity = "complex"
            /\ (total <= 20 /\ count <= 15 /\ (total > 10 \/ count > 8))
                    => analysis.complexity = "medium"
            /\ (total <= 10 /\ count <= 8) => analysis.complexity = "simple"
            /\ (total = 20 /\ count = 15) => analysis.complexity = "medium"
            /\ (total = 10 /\ count = 8) => analysis.complexity = "simple"

C1_Witness ==
    /\ Reported
    /\ Len(analysis.methods) = 15
    /\ Sum([i \in 1..Len(analysis.methods) |-> analysis.methods[i].complexity]) = 20
    /\ analysis.complexity = "medium"

(***************************************************************************)
(* C2: the parsing strategy of a report is 'mixed' when the lower-cased    *)
(* text contains 'schema' or 'json' and selectorCount > 0, 'schema' when   *)
(* it contains one of them and selectorCount = 0, 'selectors' when it      *)
(* contains neither; the schema-property count plays no part.              *)
(***************************************************************************)
C2_StrategyBySelectorsAndText ==
    Reported =>
        LET selectorCount ==
                Sum([i \in 1..Len(analysis.methods) |-> Len(analysis.methods[i].selectors)])
            mentions == \/ Contains(Lower(content), "schema")
                        \/ Contains(Lower(content), "json")
        IN  /\ (mentions /\ selectorCount > 0) => analysis.parsingStrategy = "mixed"
            /\ (mentions /\ selectorCount = 0) => analysis.parsingStrategy = "schema"
            /\ ~mentions => analysis.parsingStrategy = "selectors"

\* a text that mentions JSON only in capitals, with no selector found
C2_Witness ==
    /\ Reported
    /\ Contains(content, "JSON") /\ ~Contains(content, "json")
    /\ \A i \in 1..Len(analysis.methods) : analysis.methods[i].selectors = <<>>
    /\ analysis.methods # <<>>
    /\ analysis.parsingStrategy = "schema"

(***************************************************************************)
(* C3: with any number of arguments other than one the run ends with a     *)
(* non-zero status, the usage message on the error stream, nothing on      *)
(* standard output, and no file read, parse or analysis attempted.         *)
(***************************************************************************)
C3_UsageOnErrorStream ==
    (pc = "exit" /\ Len(argv) # 2) =>
        /\ exitCode # 0
        /\ UsageLine \in Elements(stderr)
        /\ stdout = <<>>
        /\ trace = <<>>

(***************************************************************************)
(* C4: with exactly one argument a report is written if and only if the    *)
(* read and the parse both succeeded, and then it is the one complete      *)
(* report, written after every stage; a failed read or parse is not        *)
(* caught: nothing is written to standard output, no stage is retried and  *)
(* the status is non-zero.                                                 *)
(***************************************************************************)
AllStages == <<"load", "parse", "imports", "classes", "aggregate", "report">>

C4_AllOrNothing ==
    Len(argv) = 2 =>
        /\ \A i, j \in 1..Len(trace) : i # j => trace[i] # trace[j]
        /\ stdout # <<>> =>
              /\ pc = "exit" /\ exitCode = 0
              /\ stdout = <<JsonDumps(analysis)>>
              /\ trace = AllStages
        /\ pc = "exit" =>
              /\ stdout # <<>> <=> (disk.status = "ok" /\ disk.parses)
              /\ stdout = <<>> => (exitCode # 0 /\ Len(stderr) = 1
                                    /\ trace \in {<<"load">>, <<"load", "parse">>})

\* the parse of a readable file raised, and the run is over
C4_Witness ==
    /\ pc = "exit" /\ Len(argv) = 2
    /\ disk.status = "ok" /\ ~disk.parses
    /\ stdout = <<>> /\ exitCode = 1 /\ trace = <<"load", "parse">>

(***************************************************************************)
(* C5: in every report, methods holds only the methods of the first class  *)
(* definition of the file; with no class definition, className and         *)
(* hostName are empty and methods is the empty sequence.                   *)
(***************************************************************************)
C5_OnlyFirstClassMethods ==
    Reported =>
        LET cs == ClassesOf(tree)
            first == IF cs = <<>> THEN <<>> ELSE MethodsOf(cs[1])
        IN  /\ [i \in 1..Len(analysis.methods) |-> analysis.methods[i].name]
                  = [i \in 1..Len(first) |-> first[i].name]
            /\ cs = <<>> => (analysis.className = "" /\ analysis.hostName = ""
                             /\ analysis.methods = <<>>)

(***************************************************************************)
(* C6: the returnType of every method record is decided by the name alone: *)
(* 'string[]' exactly for ingredients and instructions, 'number' exactly   *)
(* for total_time, cook_time and prep_time, 'string' for every other name. *)
(***************************************************************************)
C6_ReturnTypeByName ==
    \A i \in 1..Len(analysis.methods) :
        LET m == analysis.methods[i]
        IN  /\ m.returnType = "string[]" <=> m.name \in {"ingredients", "instructions"}
            /\ m.returnType = "number" <=> m.name \in {"total_time", "cook_time", "prep_time"}
            /\ m.returnType = "string"
                  <=> m.name \notin {"ingredients", "instructions", "total_time",
                                     "cook_time", "prep_time"}

\* a method of each return type, the two with constructs in their bodies
C6_Witness ==
    /\ Reported
    /\ \E i, j, k \in 1..Len(analysis.methods) :
          /\ analysis.methods[i].name = "prep_time"
          /\ analysis.methods[i].returnType = "number"
          /\ analysis.methods[i].complexity > 0
          /\ analysis.methods[j].name = "instructions"
          /\ analysis.methods[j].returnType = "string[]"
          /\ analysis.methods[k].name = "yields"
          /\ analysis.methods[k].returnType = "string"
          /\ analysis.methods[k].complexity > 0

(***************************************************************************)
(* C7: with several class definitions, after the class walk className and  *)
(* hostName both reflect the last class the walk visited: className is its *)
(* name, hostName the first literal-string return value of its direct      *)
(* child method named host, never a value kept from an earlier class.      *)
(***************************************************************************)
\* the host a class states itself: None when it has no method named host
\* that returns a string constant
OwnHost(class) ==
    LET hosts == SelectSeq(MethodsOf(class),
                           LAMBDA m : m.name = "host" /\ extract_host_name(m).some)
    IN  IF hosts = <<>> THEN None ELSE extract_host_name(hosts[1])

C7_LastClassWins ==
    (pc = "classify" /\ Len(ClassesOf(tree)) > 1) =>
        LET cs == ClassesOf(tree)
            last == cs[Len(cs)]
        IN  /\ analysis.className = last.name
            /\ analysis.hostName = OwnHost(last).val

(***************************************************************************)
(* C8: imports lists the import statements in pre-order depth-first order, *)
(* the order of the source text, nested ones included: each name of a      *)
(* plain import verbatim, each name of a from-import as module.name, a     *)
(* from-import with no module nothing, duplicates kept.                    *)
(***************************************************************************)
\* what one statement contributes
NamesOf(node) ==
    IF node.kind = "Import" THEN node.names
    ELSE IF node.kind = "ImportFrom" /\ node.module # ""
         THEN [i \in 1..Len(node.names) |-> node.module \o "." \o node.names[i]]
    ELSE <<>>

NamesIn(nodes) == Flatten([i \in 1..Len(nodes) |-> NamesOf(nodes[i])])

ImportsDone == pc \in {"classes", "items", "classify", "print"} \/ Reported

C8_ImportsInSourceOrder ==
    ImportsDone => analysis.imports = NamesIn(PreOrder(tree))

\* C8 as amended: imports lists the import statements level by level, the
\* statements nearer the root of the tree first and the statements of one
\* level in the order of the source text; the names as in C8.
C8_ImportsLevelByLevel ==
    ImportsDone =>
        analysis.imports =
            Flatten([d \in 1..(Height(tree) + 1) |-> NamesIn(AtDepth(tree, d - 1))])

\* an import nested in a function that stands before a top-level import
C8_Witness ==
    /\ Reported
    /\ analysis.imports = <<"re", "os", "lxml">>
    /\ NamesIn(PreOrder(tree)) = <<"lxml", "re", "os">>

\* twice the untruncated score
Halves(method_node) ==
    2 * CountKinds(method_node, {"If", "While", "For", "Try"})
        + CountKinds(method_node, {"Call"})

\* the integer n with n <= halves / 2 < n + 1
HalfFloor(halves) ==
    CHOOSE n \in 0..halves : 2 * n <= halves /\ halves < 2 * n + 2

ScoresOf(nodes) == [i \in 1..Len(nodes) |-> HalfFloor(Halves(nodes[i]))]

ScoredAs(methods, scores) ==
    /\ Len(methods) = Len(scores)
    /\ \A i \in 1..Len(scores) : methods[i].complexity = scores[i]
    /\ Sum([i \in 1..Len(methods) |-> methods[i].complexity]) = Sum(scores)

(***************************************************************************)
(* C9: the complexity of every method is the integer part of (number of    *)
(* if/while/for/try nodes) + 0.5 * (number of call nodes) of its subtree,  *)
(* truncated once at the end: a non-negative integer, an odd number of     *)
(* calls losing its half point; totalComplexity sums the truncated scores. *)
(***************************************************************************)
C9_TruncatedOncePerMethod ==
    Reported =>
        /\ ScoredAs(analysis.methods, ScoresOf(VisitedMethods(tree)))
        /\ TotalComplexity(analysis) = Sum(ScoresOf(VisitedMethods(tree)))

\* no construct and three calls give 1; one construct and one call give 1
C9_Witness ==
    /\ Reported
    /\ Len(analysis.methods) = 2
    /\ Halves(VisitedMethods(tree)[1]) = 3
    /\ analysis.methods[1].complexity = 1
    /\ Halves(VisitedMethods(tree)[2]) = 3
    /\ analysis.methods[2].complexity = 1
    /\ TotalComplexity(analysis) = 2

(***************************************************************************)
(* C10: every string constant recorded as a schema property is recorded    *)
(* as a selector too, so no method record holds more schema properties     *)
(* than selectors, and no report has parsingStrategy 'schema' while a      *)
(* method holds a schema property.                                         *)
(***************************************************************************)
C10_SchemaPropertiesAreSelectors ==
    Reported =>
        LET nodes == VisitedMethods(tree)
        IN  \A i \in 1..Len(analysis.methods) :
                LET m == analysis.methods[i]
                    texts == StrTexts(nodes[i])
                IN  /\ \A k \in 1..Len(texts) :
                          (\E e \in 1..Len(schema_patterns) :
                                Contains(texts[k], schema_patterns[e]))
                              => texts[k] \in Elements(m.selectors)
                    /\ Len(m.schemaProperties) <= Len(m.selectors)
                    /\ analysis.parsingStrategy = "schema" => m.schemaProperties = <<>>

\* a constant that holds a vocabulary entry and starts with no letter, dot
\* or hash, in a file that mentions JSON
C10_Witness ==
    /\ Reported
    /\ Len(analysis.methods) = 1
    /\ analysis.methods[1].schemaProperties = <<"name">>
    /\ analysis.methods[1].selectors = <<"1name]">>
    /\ analysis.parsingStrategy = "mixed"

====
